---------------------------- MODULE Spec2Model ----------------------------
(***************************************************************************)
(* Model of the ant-buffer primitives: ByteBuffer (src/src/byte_buffer.h),  *)
(* MessageBuffer (src/src/message_buffer.h) and RingBuffer                 *)
(* (src/src/ring_buffer.h).                                                *)
(*                                                                         *)
(* Every C++ member function is one action.  The backing array is a        *)
(* function from 0..capacity-1 to bytes.  A 32-bit value does not fit a    *)
(* TLC integer, so a value is kept as two 16-bit limbs [hi, lo]; 8- and    *)
(* 16-bit values are plain integers.                                       *)
(***************************************************************************)
EXTENDS Integers, Sequences, FiniteSets, TLC

VARIABLES
    \* ---- ByteBuffer object (byte_buffer.h:249-252) and its backing array
    bb_capacity,    \* capacity_
    bb_data,        \* the array data_ points to
    bb_head,        \* head_ : next index to write
    bb_tail,        \* tail_ : next index to read
    \* ---- observation of the last ByteBuffer call
    bb_op,          \* name of the member function called last
    bb_ret,         \* its return value (TRUE for the void functions)
    bb_in,          \* what the caller's output variable held before a read
    bb_out,         \* what it holds after the read, widened to [hi, lo]
    bb_w,           \* the last successful write still in the buffer, or NoWrite
    bb_written,     \* the bytes stored by successful writes since resetWrite
    bb_replay,      \* bytes returned by the readUInt8 calls that directly
                    \* follow the last resetRead, or NoReplay
    bb_touched,     \* the array indices the last call read or wrote
    \* ---- MessageBuffer object (message_buffer.h:146-149) and its array
    mb_capacity,    \* capacity_
    mb_data,        \* the array data_ points to
    mb_head,        \* head_
    mb_tail,        \* tail_
    \* ---- observation of the last MessageBuffer call
    mb_op,          \* name of the member function called last
    mb_ret,         \* its return value (TRUE for the void functions)
    mb_out,         \* the caller's output byte
    mb_arg,         \* the argument of the last call
    mb_oob,         \* TRUE once a call has touched an index outside the array
    mb_phase,       \* where the caller is in begin/write/finalize/beginRead/read
    mb_prev,        \* mb_phase as it was before the last call
    mb_touched,     \* the indices of data_ the last call read or wrote
    mb_type,        \* type given to the last successful beginMessage
    mb_sent,        \* bytes appended by successful writeByte since then
    mb_rcvd,        \* bytes returned by successful readByte since beginRead
    mb_rsize,       \* size given to the last successful beginRead
    mb_echo,        \* TRUE while the message read is the one just finalized
    \* ---- RingBuffer<T, N> object (ring_buffer.h:122-125)
    rb_N,           \* the template parameter N
    rb_buf,         \* buf_
    rb_head,        \* head_ : index for the next push
    rb_tail,        \* tail_ : index for the next pop
    rb_count,       \* count_
    \* ---- observation of the last RingBuffer call
    rb_op,          \* name of the member function called last
    rb_ret,         \* its return value (TRUE for clear)
    rb_arg,         \* the value given to push
    rb_in,          \* what the caller's output variable held before a pop
    rb_out,         \* what it holds after the pop
    rb_fifo,        \* the bounded queue the calls describe: values pushed and
                    \* not yet popped or cleared, oldest first
    rb_streak,      \* consecutive push calls made since the queue was empty
                    \* (counted up to N + 1), or NoStreak
    rb_net,         \* successful pushes minus successful pops since
                    \* construction or the last clear
    rb_fresh,       \* the slots a push has stored into since construction or
                    \* the last clear
    rb_was          \* head_, tail_ and count_ as they were before the last call

bbVars == <<bb_capacity, bb_data, bb_head, bb_tail, bb_op, bb_ret, bb_in, bb_out,
            bb_w, bb_written, bb_replay, bb_touched>>
mbVars == <<mb_capacity, mb_data, mb_head, mb_tail, mb_op, mb_ret, mb_out,
            mb_arg, mb_oob, mb_phase, mb_prev, mb_touched, mb_type, mb_sent,
            mb_rcvd, mb_rsize, mb_echo>>
rbVars == <<rb_N, rb_buf, rb_head, rb_tail, rb_count, rb_op, rb_ret, rb_arg,
            rb_in, rb_out, rb_fifo, rb_streak, rb_net, rb_fresh, rb_was>>
vars == <<bbVars, mbVars, rbVars>>

(***************************************************************************)
(* Bounds of the model.                                                    *)
(***************************************************************************)
\* largest ByteBuffer capacity explored (capacities 0..MaxCapacity)
MaxCapacity == 5

(***************************************************************************)
(* Input values of the ByteBuffer specification: 0xEF, 0xBEEF, and the     *)
(* 32-bit values 0x11223344 and 0xDEADBEEF.  The bytes of a value are      *)
(* pairwise distinct and non-zero, so a misplaced or missing byte is       *)
(* visible against the zero-filled array.                                  *)
(***************************************************************************)
Vals8 == {239}
Vals16 == {48879}
Vals32 == {[hi |-> 4386, lo |-> 13124], [hi |-> 57005, lo |-> 48879]}

\* what the caller's output variable may hold when a read is called: 0, 0x5A
OutBefore == {[hi |-> 0, lo |-> 0], [hi |-> 0, lo |-> 90]}

(***************************************************************************)
(* Integer helpers for the C expressions of byte_buffer.h.                 *)
(***************************************************************************)
\* a narrower value widened to the two-limb form
Wide(x) == [hi |-> 0, lo |-> x]

\* uint8_t((v >> n) & 0xFF) for a 16-bit v, n in {0, 8}
Byte16(v, n) == (v \div (2 ^ n)) % 256

\* uint8_t((v >> n) & 0xFF) for a 32-bit v, n in {0, 8, 16, 24}
Byte32(v, n) ==
    IF n < 16 THEN (v.lo \div (2 ^ n)) % 256
              ELSE (v.hi \div (2 ^ (n - 16))) % 256

\* uint16_t(b) << n for a byte b, n in {0, 8}
Shl16(b, n) == (b * (2 ^ n)) % 65536

\* uint32_t(b) << n for a byte b, n in {0, 8, 16, 24}
Shl32(b, n) ==
    IF n < 16 THEN [hi |-> 0, lo |-> b * (2 ^ n)]
              ELSE [hi |-> b * (2 ^ (n - 16)), lo |-> 0]

\* a | b | c | d of four values whose set bits are disjoint
Or32(a, b, c, d) ==
    [hi |-> a.hi + b.hi + c.hi + d.hi, lo |-> a.lo + b.lo + c.lo + d.lo]

NoWrite == [op |-> "none", pos |-> 0, val |-> Wide(0)]

\* bb_replay when the last calls are not a resetRead followed by readUInt8 calls
NoReplay == <<-1>>

(***************************************************************************)
(* ByteBuffer queries.                                                     *)
(***************************************************************************)
writePosition == bb_head

writeRemaining == IF bb_head < bb_capacity THEN bb_capacity - bb_head ELSE 0

readPosition == bb_tail

bb_readRemaining == IF bb_tail < bb_head THEN bb_head - bb_tail ELSE 0

bb_capacity_q == bb_capacity

(***************************************************************************)
(* ByteBuffer operations.  Each action is the whole member function.       *)
(***************************************************************************)
\* what every ByteBuffer call leaves alone
BBFrame == UNCHANGED <<bb_capacity, mbVars, rbVars>>

\* a call without an output variable
NoOut ==
    /\ bb_in' = Wide(0)
    /\ bb_out' = Wide(0)

\* a write that returns false and assigns nothing
BBFail(op) ==
    /\ bb_op' = op
    /\ bb_ret' = FALSE
    /\ NoOut
    /\ bb_replay' = NoReplay
    /\ bb_touched' = {}
    /\ UNCHANGED <<bb_data, bb_head, bb_tail, bb_w, bb_written>>
    /\ BBFrame

\* a read that returns false and assigns nothing: the caller's variable, which
\* held o, still holds it
BBUnderflow(op, o) ==
    /\ bb_op' = op
    /\ bb_ret' = FALSE
    /\ bb_in' = o
    /\ bb_out' = o
    /\ bb_replay' = IF op = "readUInt8" THEN bb_replay ELSE NoReplay
    /\ bb_touched' = {}
    /\ UNCHANGED <<bb_data, bb_head, bb_tail, bb_w, bb_written>>
    /\ BBFrame

\* a successful write of the bytes bs (in address order) at head_
BBStore(op, v, bs) ==
    /\ bb_data' = [i \in DOMAIN bb_data |->
                     IF i >= bb_head /\ i < bb_head + Len(bs)
                        THEN bs[i - bb_head + 1] ELSE bb_data[i]]
    /\ bb_head' = bb_head + Len(bs)
    /\ bb_op' = op
    /\ bb_ret' = TRUE
    /\ bb_w' = [op |-> op, pos |-> bb_head, val |-> v]
    /\ bb_written' = bb_written \o bs
    /\ bb_replay' = NoReplay
    /\ bb_touched' = bb_head..(bb_head + Len(bs) - 1)
    /\ NoOut
    /\ UNCHANGED bb_tail
    /\ BBFrame

\* a successful read of n bytes at tail_ storing the value v into the
\* caller's variable, which held o
BBLoad(op, o, n, v) ==
    /\ bb_in' = o
    /\ bb_out' = v
    /\ bb_tail' = bb_tail + n
    /\ bb_op' = op
    /\ bb_ret' = TRUE
    /\ bb_replay' = IF op = "readUInt8" /\ bb_replay # NoReplay
                        THEN Append(bb_replay, v.lo) ELSE NoReplay
    /\ bb_touched' = bb_tail..(bb_tail + n - 1)
    /\ UNCHANGED <<bb_data, bb_head, bb_w, bb_written>>
    /\ BBFrame

\* resetWrite rewinding the write cursor to the read cursor only
resetWrite_toread ==
    /\ bb_head' = IF bb_tail < bb_head THEN bb_tail ELSE bb_head
    /\ bb_op' = "resetWrite"
    /\ bb_ret' = TRUE
    /\ bb_w' = NoWrite
    /\ bb_written' = <<>>
    /\ bb_replay' = NoReplay
    /\ bb_touched' = {}
    /\ NoOut
    /\ UNCHANGED <<bb_data, bb_tail>>
    /\ BBFrame

resetWrite ==
    /\ bb_head' = 0
    /\ bb_op' = "resetWrite"
    /\ bb_ret' = TRUE
    /\ bb_w' = NoWrite
    /\ bb_written' = <<>>
    /\ bb_replay' = NoReplay
    /\ bb_touched' = {}
    /\ NoOut
    /\ UNCHANGED <<bb_data, bb_tail>>
    /\ BBFrame

\* resetRead stepping the read cursor back by one byte instead of to 0
resetRead_back ==
    /\ bb_tail' = IF bb_tail > 0 THEN bb_tail - 1 ELSE 0
    /\ bb_op' = "resetRead"
    /\ bb_ret' = TRUE
    /\ bb_replay' = <<>>
    /\ bb_touched' = {}
    /\ NoOut
    /\ UNCHANGED <<bb_data, bb_head, bb_w, bb_written>>
    /\ BBFrame

resetRead ==
    /\ bb_tail' = 0
    /\ bb_op' = "resetRead"
    /\ bb_ret' = TRUE
    /\ bb_replay' = <<>>
    /\ bb_touched' = {}
    /\ NoOut
    /\ UNCHANGED <<bb_data, bb_head, bb_w, bb_written>>
    /\ BBFrame

\* readUInt8 bounded by the capacity instead of the write cursor
readUInt8_tocapacity(o) ==
    IF bb_tail >= bb_capacity THEN BBUnderflow("readUInt8", o)
    ELSE BBLoad("readUInt8", o, 1, Wide(bb_data[bb_tail]))

readUInt8(o) ==
    IF bb_readRemaining < 1 THEN BBUnderflow("readUInt8", o)
    ELSE BBLoad("readUInt8", o, 1, Wide(bb_data[bb_tail]))

writeUInt8(v) ==
    IF writeRemaining < 1 THEN BBFail("writeUInt8")
    ELSE BBStore("writeUInt8", Wide(v), <<v>>)

readUInt16LE(o) ==
    IF bb_readRemaining < 2 THEN BBUnderflow("readUInt16LE", o)
    ELSE BBLoad("readUInt16LE", o, 2,
                Wide(Shl16(bb_data[bb_tail], 0) + Shl16(bb_data[bb_tail + 1], 8)))

\* readUInt16BE clearing the output variable when it fails
readUInt16BE_clearing(o) ==
    IF bb_readRemaining < 2
    THEN /\ bb_in' = o
         /\ bb_out' = Wide(0)
         /\ bb_op' = "readUInt16BE"
         /\ bb_ret' = FALSE
         /\ bb_replay' = NoReplay
         /\ bb_touched' = {}
         /\ UNCHANGED <<bb_data, bb_head, bb_tail, bb_w, bb_written>>
         /\ BBFrame
    ELSE BBLoad("readUInt16BE", o, 2,
                Wide(Shl16(bb_data[bb_tail], 8) + Shl16(bb_data[bb_tail + 1], 0)))

readUInt16BE(o) ==
    IF bb_readRemaining < 2 THEN BBUnderflow("readUInt16BE", o)
    ELSE BBLoad("readUInt16BE", o, 2,
                Wide(Shl16(bb_data[bb_tail], 8) + Shl16(bb_data[bb_tail + 1], 0)))

\* writeUInt16LE storing the low byte before it finds the high byte does not fit
writeUInt16LE_partial(v) ==
    IF writeRemaining < 1 THEN BBFail("writeUInt16LE")
    ELSE IF writeRemaining < 2
         THEN /\ bb_data' = [bb_data EXCEPT ![bb_head] = Byte16(v, 0)]
              /\ bb_head' = bb_head + 1
              /\ bb_op' = "writeUInt16LE"
              /\ bb_ret' = FALSE
              /\ bb_replay' = NoReplay
              /\ bb_touched' = {bb_head}
              /\ NoOut
              /\ UNCHANGED <<bb_tail, bb_w, bb_written>>
              /\ BBFrame
         ELSE BBStore("writeUInt16LE", Wide(v), <<Byte16(v, 0), Byte16(v, 8)>>)

writeUInt16LE(v) ==
    IF writeRemaining < 2 THEN BBFail("writeUInt16LE")
    ELSE BBStore("writeUInt16LE", Wide(v), <<Byte16(v, 0), Byte16(v, 8)>>)

writeUInt16BE(v) ==
    IF writeRemaining < 2 THEN BBFail("writeUInt16BE")
    ELSE BBStore("writeUInt16BE", Wide(v), <<Byte16(v, 8), Byte16(v, 0)>>)

\* readUInt32LE with the shifts of the two middle bytes exchanged
readUInt32LE_swapped(o) ==
    IF bb_readRemaining < 4 THEN BBUnderflow("readUInt32LE", o)
    ELSE BBLoad("readUInt32LE", o, 4,
                Or32(Shl32(bb_data[bb_tail], 0), Shl32(bb_data[bb_tail + 1], 16),
                     Shl32(bb_data[bb_tail + 2], 8), Shl32(bb_data[bb_tail + 3], 24)))

readUInt32LE(o) ==
    IF bb_readRemaining < 4 THEN BBUnderflow("readUInt32LE", o)
    ELSE BBLoad("readUInt32LE", o, 4,
                Or32(Shl32(bb_data[bb_tail], 0), Shl32(bb_data[bb_tail + 1], 8),
                     Shl32(bb_data[bb_tail + 2], 16), Shl32(bb_data[bb_tail + 3], 24)))

readUInt32BE(o) ==
    IF bb_readRemaining < 4 THEN BBUnderflow("readUInt32BE", o)
    ELSE BBLoad("readUInt32BE", o, 4,
                Or32(Shl32(bb_data[bb_tail], 24), Shl32(bb_data[bb_tail + 1], 16),
                     Shl32(bb_data[bb_tail + 2], 8), Shl32(bb_data[bb_tail + 3], 0)))

writeUInt32LE(v) ==
    IF writeRemaining < 4 THEN BBFail("writeUInt32LE")
    ELSE BBStore("writeUInt32LE", v,
                 <<Byte32(v, 0), Byte32(v, 8), Byte32(v, 16), Byte32(v, 24)>>)

\* writeUInt32BE storing the bytes least-significant first
writeUInt32BE_reversed(v) ==
    IF writeRemaining < 4 THEN BBFail("writeUInt32BE")
    ELSE BBStore("writeUInt32BE", v,
                 <<Byte32(v, 0), Byte32(v, 8), Byte32(v, 16), Byte32(v, 24)>>)

writeUInt32BE(v) ==
    IF writeRemaining < 4 THEN BBFail("writeUInt32BE")
    ELSE BBStore("writeUInt32BE", v,
                 <<Byte32(v, 24), Byte32(v, 16), Byte32(v, 8), Byte32(v, 0)>>)

(***************************************************************************)
(* RingBuffer: placeholder state while another component runs.             *)
(***************************************************************************)
RBIdle ==
    /\ rb_N = 0
    /\ rb_buf = <<>>
    /\ rb_head = 0
    /\ rb_tail = 0
    /\ rb_count = 0
    /\ rb_op = "init"
    /\ rb_ret = TRUE
    /\ rb_arg = 0
    /\ rb_in = 0
    /\ rb_out = 0
    /\ rb_fifo = <<>>
    /\ rb_streak = [on |-> TRUE, n |-> 0]
    /\ rb_net = 0
    /\ rb_fresh = {}
    /\ rb_was = [head |-> 0, tail |-> 0, count |-> 0]

(***************************************************************************)
(* MessageBuffer: placeholder state while another component runs.          *)
(***************************************************************************)
MBIdle ==
    /\ mb_capacity = 0
    /\ mb_data = <<>>
    /\ mb_head = 0
    /\ mb_tail = 0
    /\ mb_op = "init"
    /\ mb_ret = TRUE
    /\ mb_out = 0
    /\ mb_arg = 0
    /\ mb_oob = FALSE
    /\ mb_phase = "idle"
    /\ mb_prev = "idle"
    /\ mb_touched = {}
    /\ mb_type = 0
    /\ mb_sent = <<>>
    /\ mb_rcvd = <<>>
    /\ mb_rsize = 0
    /\ mb_echo = FALSE

(***************************************************************************)
(* ByteBuffer specification: a buffer of any capacity up to MaxCapacity    *)
(* over a zero-filled array, driven by any sequence of calls.              *)
(***************************************************************************)
InitBB ==
    /\ bb_capacity \in 0..MaxCapacity
    /\ bb_data = [i \in 0..(bb_capacity - 1) |-> 0]
    /\ bb_head = 0
    /\ bb_tail = 0
    /\ bb_op = "init"
    /\ bb_ret = TRUE
    /\ bb_in = Wide(0)
    /\ bb_out = Wide(0)
    /\ bb_w = NoWrite
    /\ bb_written = <<>>
    /\ bb_replay = NoReplay
    /\ bb_touched = {}
    /\ MBIdle
    /\ RBIdle

NextBB ==
    \/ resetWrite
    \/ resetRead
    \/ \E o \in OutBefore : readUInt8(o)
    \/ \E v \in Vals8 : writeUInt8(v)
    \/ \E o \in OutBefore : readUInt16LE(o)
    \/ \E o \in OutBefore : readUInt16BE(o)
    \/ \E v \in Vals16 : writeUInt16LE(v)
    \/ \E v \in Vals16 : writeUInt16BE(v)
    \/ \E o \in OutBefore : readUInt32LE(o)
    \/ \E o \in OutBefore : readUInt32BE(o)
    \/ \E v \in Vals32 : writeUInt32LE(v)
    \/ \E v \in Vals32 : writeUInt32BE(v)

SpecBB == InitBB /\ [][NextBB]_vars

(***************************************************************************)
(* Codec specification: on a fresh buffer, one write of a value followed   *)
(* by the read of the same width and byte order.  Every 8- and 16-bit      *)
(* value is written; the 32-bit values are all pairs of the limbs below    *)
(* (0x0000, 0x0001, 0x00FF, 0x0100, 0x1122, 0x3344, 0x7FFF, 0x8000,        *)
(* 0xDEAD, 0xBEEF, 0xFFFF).                                                *)
(***************************************************************************)
AllVals8 == 0..255
AllVals16 == 0..65535
Limbs == {0, 1, 255, 256, 4386, 13124, 32767, 32768, 57005, 48879, 65535}
SampleVals32 == {[hi |-> h, lo |-> l] : h \in Limbs, l \in Limbs}

InitCodec ==
    /\ bb_capacity = MaxCapacity
    /\ bb_data = [i \in 0..(bb_capacity - 1) |-> 0]
    /\ bb_head = 0
    /\ bb_tail = 0
    /\ bb_op = "init"
    /\ bb_ret = TRUE
    /\ bb_in = Wide(0)
    /\ bb_out = Wide(0)
    /\ bb_w = NoWrite
    /\ bb_written = <<>>
    /\ bb_replay = NoReplay
    /\ bb_touched = {}
    /\ MBIdle
    /\ RBIdle

NextCodec ==
    \/ bb_op = "init" /\ \E v \in AllVals8 : writeUInt8(v)
    \/ bb_op = "init" /\ \E v \in AllVals16 : writeUInt16LE(v)
    \/ bb_op = "init" /\ \E v \in AllVals16 : writeUInt16BE(v)
    \/ bb_op = "init" /\ \E v \in SampleVals32 : writeUInt32LE(v)
    \/ bb_op = "init" /\ \E v \in SampleVals32 : writeUInt32BE(v)
    \/ bb_op = "writeUInt8" /\ \E o \in OutBefore : readUInt8(o)
    \/ bb_op = "writeUInt16LE" /\ \E o \in OutBefore : readUInt16LE(o)
    \/ bb_op = "writeUInt16BE" /\ \E o \in OutBefore : readUInt16BE(o)
    \/ bb_op = "writeUInt32LE" /\ \E o \in OutBefore : readUInt32LE(o)
    \/ bb_op = "writeUInt32BE" /\ \E o \in OutBefore : readUInt32BE(o)

SpecCodec == InitCodec /\ [][NextCodec]_vars

(***************************************************************************)
(* ByteBuffer claims.                                                      *)
(***************************************************************************)
WriteOps == {"writeUInt8", "writeUInt16LE", "writeUInt16BE",
             "writeUInt32LE", "writeUInt32BE"}
ReadOps == {"readUInt8", "readUInt16LE", "readUInt16BE",
            "readUInt32LE", "readUInt32BE"}

\* the number of bytes a scalar reader or writer moves
WidthOf(op) ==
    IF op \in {"writeUInt8", "readUInt8"} THEN 1
    ELSE IF op \in {"writeUInt16LE", "writeUInt16BE",
                    "readUInt16LE", "readUInt16BE"} THEN 2
    ELSE 4

\* the reader that matches a writer in width and byte order
ReaderOf(op) ==
    CASE op = "writeUInt8" -> "readUInt8"
      [] op = "writeUInt16LE" -> "readUInt16LE"
      [] op = "writeUInt16BE" -> "readUInt16BE"
      [] op = "writeUInt32LE" -> "readUInt32LE"
      [] op = "writeUInt32BE" -> "readUInt32BE"
      [] OTHER -> "none"

\* byte k of the value v, byte 0 being the least significant
Digit(v, k) ==
    CASE k = 0 -> v.lo % 256
      [] k = 1 -> v.lo \div 256
      [] k = 2 -> v.hi % 256
      [] k = 3 -> v.hi \div 256

\* C1: after every ByteBuffer call,
\* 0 <= readPosition() <= writePosition() <= capacity().
\* The code breaks it: resetWrite() puts head_ back to 0 and leaves tail_.
C1_CursorInvariant ==
    /\ 0 <= readPosition
    /\ readPosition <= writePosition
    /\ writePosition <= bb_capacity_q

\* C4: a scalar write of width w called when writeRemaining() < w returns
\* false and leaves the write position, the read position and every byte of
\* the array unchanged.
C4_AllOrNothingWrites ==
    [][\A op \in WriteOps :
         (bb_op' = op /\ writeRemaining < WidthOf(op))
            => /\ bb_ret' = FALSE
               /\ bb_head' = bb_head
               /\ bb_tail' = bb_tail
               /\ bb_data' = bb_data]_vars

\* C4 witness: a 16-bit write has just failed with one byte of room left in
\* a buffer that already holds data.
C4_Witness ==
    /\ bb_op = "writeUInt16LE"
    /\ bb_ret = FALSE
    /\ writeRemaining = 1
    /\ bb_head > 0
    /\ bb_data[0] # 0

\* C5: a successful write of v followed by the read of the same width and
\* byte order from the position where v was written returns true and
\* yields exactly v.
C5_RoundTrip ==
    [][\A op \in WriteOps :
         (bb_w.op = op /\ bb_op' = ReaderOf(op) /\ bb_tail = bb_w.pos)
            => /\ bb_ret' = TRUE
               /\ bb_out' = bb_w.val]_vars

\* C5 witness: 0x11223344 written little-endian lies in the array as
\* 0x44, 0x33, 0x22, 0x11 and has been read back.
C5_Witness ==
    /\ bb_op = "readUInt32LE"
    /\ bb_ret = TRUE
    /\ bb_w.op = "writeUInt32LE"
    /\ bb_w.val = [hi |-> 4386, lo |-> 13124]
    /\ bb_out = bb_w.val
    /\ bb_data[0] = 68 /\ bb_data[1] = 51 /\ bb_data[2] = 34 /\ bb_data[3] = 17

\* C6: with writeRemaining() >= w a write of width w at position p returns
\* true, moves the write position to p + w, puts the least-significant byte
\* at p (little-endian) or the most-significant byte at p (big-endian),
\* changes no byte outside [p, p + w) and leaves the read cursor alone.
C6_WritePostCondition ==
    [][\A op \in WriteOps :
         (bb_op' = op /\ writeRemaining >= WidthOf(op))
            => LET w == WidthOf(op)
                   p == bb_head
                   v == bb_w'.val
                   bigEndian == op \in {"writeUInt16BE", "writeUInt32BE"}
               IN  /\ bb_ret' = TRUE
                   /\ bb_w'.op = op
                   /\ bb_w'.pos = p
                   /\ bb_head' = p + w
                   /\ bb_tail' = bb_tail
                   /\ \A k \in 0..(w - 1) :
                        bb_data'[p + k] =
                            IF bigEndian THEN Digit(v, w - 1 - k) ELSE Digit(v, k)
                   /\ \A i \in DOMAIN bb_data :
                        (i < p \/ i >= p + w) => bb_data'[i] = bb_data[i]
                   /\ (op = "writeUInt32LE" /\ v = [hi |-> 4386, lo |-> 13124])
                        => /\ bb_data'[p] = 68 /\ bb_data'[p + 1] = 51
                           /\ bb_data'[p + 2] = 34 /\ bb_data'[p + 3] = 17
                   /\ (op = "writeUInt32BE" /\ v = [hi |-> 57005, lo |-> 48879])
                        => /\ bb_data'[p] = 222 /\ bb_data'[p + 1] = 173
                           /\ bb_data'[p + 2] = 190 /\ bb_data'[p + 3] = 239]_vars

\* C6 witness: 0xDEADBEEF written big-endian at position 1, after one byte,
\* lies as 0xDE 0xAD 0xBE 0xEF at 1..4 and byte 0 is as before.
C6_Witness ==
    /\ bb_op = "writeUInt32BE"
    /\ bb_ret = TRUE
    /\ bb_w.val = [hi |-> 57005, lo |-> 48879]
    /\ bb_w.pos = 1
    /\ bb_head = 5
    /\ bb_data[1] = 222 /\ bb_data[2] = 173 /\ bb_data[3] = 190 /\ bb_data[4] = 239
    /\ bb_data[0] = 239

\* C7: a read of width w called when readRemaining() < w returns false and
\* leaves both positions, the array and the output variable unchanged; with
\* readRemaining() >= w it returns true and moves the read position by
\* exactly w, leaving the write position and the array unchanged.
C7_ReadFailureAndSuccess ==
    [][\A op \in ReadOps :
         bb_op' = op
            => IF bb_readRemaining < WidthOf(op)
                  THEN /\ bb_ret' = FALSE
                       /\ bb_tail' = bb_tail
                       /\ bb_head' = bb_head
                       /\ bb_data' = bb_data
                       /\ bb_out' = bb_in'
                  ELSE /\ bb_ret' = TRUE
                       /\ bb_tail' = bb_tail + WidthOf(op)
                       /\ bb_head' = bb_head
                       /\ bb_data' = bb_data]_vars

\* C7 witness: a 16-bit read has just failed with one byte left to read,
\* and the output variable still holds the 0x5A it held before the call.
C7_Witness ==
    /\ bb_op = "readUInt16BE"
    /\ bb_ret = FALSE
    /\ bb_readRemaining = 1
    /\ bb_in = Wide(90)
    /\ bb_out = Wide(90)

(***************************************************************************)
(* MessageBuffer (message_buffer.h).                                       *)
(***************************************************************************)
\* static constexpr size_t headerSize_
headerSize_ == 2

\* the largest payload length the one-byte length field holds
MaxPayloadLength == 255

\* size_t arithmetic is modulo 2^w; w = 16 is the narrowest size_t C++ allows,
\* and every wider one gives the same comparisons against 255
SizeModulus == 65536

\* largest MessageBuffer capacity explored (capacities 0..MaxMsgCapacity)
MaxMsgCapacity == 5

\* payload bytes appended beyond MaxPayloadLength in the clamp specification
ClampExtra == 2

\* 0x42
MsgTypes == {66}
\* 0x11, 0x22
PayloadBytes == {17, 34}

\* size() : the write cursor
size == mb_head

\* messageType() : data_[0]
messageType == mb_data[0]

\* payloadLength() : data_[1]
payloadLength == mb_data[1]

\* readRemaining() measuring from the start of the array: payloadLength()
\* without headerSize_
mb_readRemaining_noheader ==
    LET payloadEnd == payloadLength
    IN  IF mb_tail < payloadEnd THEN payloadEnd - mb_tail ELSE 0

\* readRemaining()
mb_readRemaining ==
    LET payloadEnd == headerSize_ + payloadLength
    IN  IF mb_tail < payloadEnd THEN payloadEnd - mb_tail ELSE 0

\* what every MessageBuffer call leaves alone
MBFrame == UNCHANGED <<mb_capacity, bbVars, rbVars>>

\* the caller's session is not one the observation follows any more
MBUntracked ==
    /\ mb_phase' = "idle"
    /\ mb_type' = 0
    /\ mb_sent' = <<>>
    /\ mb_rcvd' = <<>>
    /\ mb_rsize' = 0
    /\ mb_echo' = FALSE

\* a call that returns false and assigns nothing
MBFail(op, arg) ==
    /\ mb_op' = op
    /\ mb_ret' = FALSE
    /\ mb_arg' = arg
    /\ mb_prev' = mb_phase
    /\ mb_touched' = {}
    /\ UNCHANGED <<mb_data, mb_head, mb_tail, mb_out, mb_oob, mb_phase, mb_type,
                   mb_sent, mb_rcvd, mb_rsize, mb_echo>>
    /\ MBFrame

\* beginMessage leaving the read cursor where the previous session put it
beginMessage_keepread(type) ==
    IF mb_capacity < headerSize_ THEN MBFail("beginMessage", type)
    ELSE /\ mb_head' = headerSize_
         /\ mb_data' = [mb_data EXCEPT ![0] = type, ![1] = 0]
         /\ mb_op' = "beginMessage"
         /\ mb_ret' = TRUE
         /\ mb_arg' = type
         /\ mb_phase' = "writing"
         /\ mb_prev' = mb_phase
         /\ mb_touched' = {0, 1}
         /\ mb_type' = type
         /\ mb_sent' = <<>>
         /\ mb_rcvd' = <<>>
         /\ mb_rsize' = 0
         /\ mb_echo' = FALSE
         /\ UNCHANGED <<mb_tail, mb_out, mb_oob>>
         /\ MBFrame

\* beginMessage keeping the write cursor of a longer previous message
beginMessage_append(type) ==
    IF mb_capacity < headerSize_ THEN MBFail("beginMessage", type)
    ELSE /\ mb_head' = IF mb_head > headerSize_ THEN mb_head ELSE headerSize_
         /\ mb_tail' = 0
         /\ mb_data' = [mb_data EXCEPT ![0] = type, ![1] = 0]
         /\ mb_op' = "beginMessage"
         /\ mb_ret' = TRUE
         /\ mb_arg' = type
         /\ mb_phase' = "writing"
         /\ mb_prev' = mb_phase
         /\ mb_touched' = {0, 1}
         /\ mb_type' = type
         /\ mb_sent' = <<>>
         /\ mb_rcvd' = <<>>
         /\ mb_rsize' = 0
         /\ mb_echo' = FALSE
         /\ UNCHANGED <<mb_out, mb_oob>>
         /\ MBFrame

beginMessage(type) ==
    IF mb_capacity < headerSize_ THEN MBFail("beginMessage", type)
    ELSE /\ mb_head' = headerSize_
         /\ mb_tail' = 0
         /\ mb_data' = [mb_data EXCEPT ![0] = type, ![1] = 0]
         /\ mb_op' = "beginMessage"
         /\ mb_ret' = TRUE
         /\ mb_arg' = type
         /\ mb_phase' = "writing"
         /\ mb_prev' = mb_phase
         /\ mb_touched' = {0, 1}
         /\ mb_type' = type
         /\ mb_sent' = <<>>
         /\ mb_rcvd' = <<>>
         /\ mb_rsize' = 0
         /\ mb_echo' = FALSE
         /\ UNCHANGED <<mb_out, mb_oob>>
         /\ MBFrame

\* writeByte refusing the last free slot: head_ + 1 >= capacity_
writeByte_short(v) ==
    IF mb_head + 1 >= mb_capacity THEN MBFail("writeByte", v)
    ELSE /\ mb_data' = [mb_data EXCEPT ![mb_head] = v]
         /\ mb_head' = mb_head + 1
         /\ mb_op' = "writeByte"
         /\ mb_prev' = mb_phase
         /\ mb_touched' = {mb_head}
         /\ mb_ret' = TRUE
         /\ mb_arg' = v
         /\ IF mb_phase = "writing"
               THEN /\ mb_sent' = Append(mb_sent, v)
                    /\ UNCHANGED <<mb_phase, mb_type, mb_rcvd, mb_rsize, mb_echo>>
               ELSE MBUntracked
         /\ UNCHANGED <<mb_tail, mb_out, mb_oob>>
         /\ MBFrame

writeByte(v) ==
    IF mb_head >= mb_capacity THEN MBFail("writeByte", v)
    ELSE /\ mb_data' = [mb_data EXCEPT ![mb_head] = v]
         /\ mb_head' = mb_head + 1
         /\ mb_op' = "writeByte"
         /\ mb_prev' = mb_phase
         /\ mb_touched' = {mb_head}
         /\ mb_ret' = TRUE
         /\ mb_arg' = v
         /\ IF mb_phase = "writing"
               THEN /\ mb_sent' = Append(mb_sent, v)
                    /\ UNCHANGED <<mb_phase, mb_type, mb_rcvd, mb_rsize, mb_echo>>
               ELSE MBUntracked
         /\ UNCHANGED <<mb_tail, mb_out, mb_oob>>
         /\ MBFrame

\* finalizeMessage counting the header into the length: head_ instead of
\* head_ - headerSize_
finalizeMessage_fullsize ==
    LET wrapped == mb_head % SizeModulus
        payloadLength_ == IF wrapped > MaxPayloadLength THEN MaxPayloadLength
                                                        ELSE wrapped
    IN  /\ IF 1 \in DOMAIN mb_data
              THEN /\ mb_data' = [mb_data EXCEPT ![1] = payloadLength_ % 256]
                   /\ UNCHANGED mb_oob
              ELSE /\ mb_oob' = TRUE
                   /\ UNCHANGED mb_data
        /\ mb_op' = "finalizeMessage"
        /\ mb_prev' = mb_phase
        /\ mb_touched' = {1}
        /\ mb_ret' = TRUE
        /\ mb_arg' = 0
        /\ IF mb_phase \in {"writing", "finalized"}
              THEN /\ mb_phase' = "finalized"
                   /\ UNCHANGED <<mb_type, mb_sent, mb_rcvd, mb_rsize, mb_echo>>
              ELSE MBUntracked
        /\ UNCHANGED <<mb_head, mb_tail, mb_out>>
        /\ MBFrame

\* finalizeMessage without the clamp: the cast to uint8_t alone cuts the length
finalizeMessage_unclamped ==
    LET wrapped == (mb_head - headerSize_) % SizeModulus
    IN  /\ IF 1 \in DOMAIN mb_data
              THEN /\ mb_data' = [mb_data EXCEPT ![1] = wrapped % 256]
                   /\ UNCHANGED mb_oob
              ELSE /\ mb_oob' = TRUE
                   /\ UNCHANGED mb_data
        /\ mb_op' = "finalizeMessage"
        /\ mb_prev' = mb_phase
        /\ mb_touched' = {1}
        /\ mb_ret' = TRUE
        /\ mb_arg' = 0
        /\ IF mb_phase \in {"writing", "finalized"}
              THEN /\ mb_phase' = "finalized"
                   /\ UNCHANGED <<mb_type, mb_sent, mb_rcvd, mb_rsize, mb_echo>>
              ELSE MBUntracked
        /\ UNCHANGED <<mb_head, mb_tail, mb_out>>
        /\ MBFrame

\* finalizeMessage cutting the write cursor back to the length it declares
finalizeMessage_truncate ==
    LET wrapped == (mb_head - headerSize_) % SizeModulus
        payloadLength_ == IF wrapped > MaxPayloadLength THEN MaxPayloadLength
                                                        ELSE wrapped
    IN  /\ IF 1 \in DOMAIN mb_data
              THEN /\ mb_data' = [mb_data EXCEPT ![1] = payloadLength_ % 256]
                   /\ UNCHANGED mb_oob
              ELSE /\ mb_oob' = TRUE
                   /\ UNCHANGED mb_data
        /\ mb_head' = IF wrapped > MaxPayloadLength
                         THEN headerSize_ + MaxPayloadLength ELSE mb_head
        /\ mb_op' = "finalizeMessage"
        /\ mb_prev' = mb_phase
        /\ mb_touched' = {1}
        /\ mb_ret' = TRUE
        /\ mb_arg' = 0
        /\ IF mb_phase \in {"writing", "finalized"}
              THEN /\ mb_phase' = "finalized"
                   /\ UNCHANGED <<mb_type, mb_sent, mb_rcvd, mb_rsize, mb_echo>>
              ELSE MBUntracked
        /\ UNCHANGED <<mb_tail, mb_out>>
        /\ MBFrame

finalizeMessage ==
    LET wrapped == (mb_head - headerSize_) % SizeModulus
        payloadLength_ == IF wrapped > MaxPayloadLength THEN MaxPayloadLength
                                                        ELSE wrapped
    IN  /\ IF 1 \in DOMAIN mb_data
              THEN /\ mb_data' = [mb_data EXCEPT ![1] = payloadLength_ % 256]
                   /\ UNCHANGED mb_oob
              ELSE \* data_[1] lies outside the array: the store lands elsewhere
                   /\ mb_oob' = TRUE
                   /\ UNCHANGED mb_data
        /\ mb_op' = "finalizeMessage"
        /\ mb_prev' = mb_phase
        /\ mb_touched' = {1}
        /\ mb_ret' = TRUE
        /\ mb_arg' = 0
        /\ IF mb_phase \in {"writing", "finalized"}
              THEN /\ mb_phase' = "finalized"
                   /\ UNCHANGED <<mb_type, mb_sent, mb_rcvd, mb_rsize, mb_echo>>
              ELSE MBUntracked
        /\ UNCHANGED <<mb_head, mb_tail, mb_out>>
        /\ MBFrame

\* the part of beginRead after its validation
BeginReadAccept(size_) ==
    /\ mb_head' = size_
    /\ mb_tail' = headerSize_
    /\ mb_op' = "beginRead"
    /\ mb_prev' = mb_phase
    /\ mb_touched' = {}
    /\ mb_ret' = TRUE
    /\ mb_arg' = size_
    /\ mb_phase' = "reading"
    /\ mb_rsize' = size_
    /\ mb_rcvd' = <<>>
    /\ IF mb_phase = "finalized" /\ size_ = size
          THEN /\ mb_echo' = TRUE
               /\ UNCHANGED <<mb_type, mb_sent>>
          ELSE /\ mb_echo' = FALSE
               /\ mb_type' = 0
               /\ mb_sent' = <<>>
    /\ UNCHANGED <<mb_data, mb_out, mb_oob>>
    /\ MBFrame

\* beginRead moving head_ to size before it validates size
beginRead_eager(size_) ==
    IF size_ < headerSize_ \/ size_ > mb_capacity
    THEN /\ mb_head' = size_
         /\ mb_op' = "beginRead"
         /\ mb_prev' = mb_phase
         /\ mb_touched' = {}
         /\ mb_ret' = FALSE
         /\ mb_arg' = size_
         /\ UNCHANGED <<mb_data, mb_tail, mb_out, mb_oob, mb_phase, mb_type,
                        mb_sent, mb_rcvd, mb_rsize, mb_echo>>
         /\ MBFrame
    ELSE BeginReadAccept(size_)

\* beginRead refusing a message that fills the whole array: >= for >
beginRead_strict(size_) ==
    IF size_ < headerSize_ \/ size_ >= mb_capacity THEN MBFail("beginRead", size_)
    ELSE BeginReadAccept(size_)

\* beginRead without the lower bound on size
beginRead_nolower(size_) ==
    IF size_ > mb_capacity THEN MBFail("beginRead", size_)
    ELSE BeginReadAccept(size_)

beginRead(size_) ==
    IF size_ < headerSize_ \/ size_ > mb_capacity THEN MBFail("beginRead", size_)
    ELSE BeginReadAccept(size_)

\* the part of readByte after its bound check
ReadByteAccept ==
    /\ mb_out' = mb_data[mb_tail]
    /\ mb_tail' = mb_tail + 1
    /\ mb_op' = "readByte"
    /\ mb_prev' = mb_phase
    /\ mb_touched' = {mb_tail}
    /\ mb_ret' = TRUE
    /\ mb_arg' = 0
    /\ IF mb_phase = "reading"
          THEN /\ mb_rcvd' = Append(mb_rcvd, mb_data[mb_tail])
               /\ UNCHANGED <<mb_phase, mb_type, mb_sent, mb_rsize, mb_echo>>
          ELSE MBUntracked
    /\ UNCHANGED <<mb_data, mb_head, mb_oob>>
    /\ MBFrame

\* readByte that also stops at the length the header declares
readByte_declared ==
    IF \/ mb_tail >= mb_head
       \/ (1 \in DOMAIN mb_data /\ mb_tail >= headerSize_ + payloadLength)
    THEN MBFail("readByte", 0)
    ELSE ReadByteAccept

readByte ==
    IF mb_tail >= mb_head THEN MBFail("readByte", 0)
    ELSE ReadByteAccept

(***************************************************************************)
(* ByteBuffer: placeholder state while another component runs.             *)
(***************************************************************************)
BBIdle ==
    /\ bb_capacity = 0
    /\ bb_data = <<>>
    /\ bb_head = 0
    /\ bb_tail = 0
    /\ bb_op = "init"
    /\ bb_ret = TRUE
    /\ bb_in = Wide(0)
    /\ bb_out = Wide(0)
    /\ bb_w = NoWrite
    /\ bb_written = <<>>
    /\ bb_replay = NoReplay
    /\ bb_touched = {}

\* a freshly constructed MessageBuffer over a zero-filled array of c bytes
MBConstructed(c) ==
    /\ mb_capacity = c
    /\ mb_data = [i \in 0..(c - 1) |-> 0]
    /\ mb_head = 0
    /\ mb_tail = 0
    /\ mb_op = "init"
    /\ mb_ret = TRUE
    /\ mb_out = 0
    /\ mb_arg = 0
    /\ mb_oob = FALSE
    /\ mb_phase = "idle"
    /\ mb_prev = "idle"
    /\ mb_touched = {}
    /\ mb_type = 0
    /\ mb_sent = <<>>
    /\ mb_rcvd = <<>>
    /\ mb_rsize = 0
    /\ mb_echo = FALSE

(***************************************************************************)
(* MessageBuffer specification: any capacity up to MaxMsgCapacity, any     *)
(* sequence of calls, beginRead with every size from 0 to capacity + 1.    *)
(***************************************************************************)
InitMB ==
    /\ \E c \in 0..MaxMsgCapacity : MBConstructed(c)
    /\ BBIdle
    /\ RBIdle

NextMB ==
    \/ \E t \in MsgTypes : beginMessage(t)
    \/ \E v \in PayloadBytes : writeByte(v)
    \/ finalizeMessage
    \/ \E n \in 0..(mb_capacity + 1) : beginRead(n)
    \/ readByte

SpecMB == InitMB /\ [][NextMB]_vars

(***************************************************************************)
(* Clamp specification: the write path on an array large enough to hold    *)
(* more than MaxPayloadLength payload bytes.                               *)
(***************************************************************************)
InitClamp ==
    /\ MBConstructed(headerSize_ + MaxPayloadLength + ClampExtra)
    /\ BBIdle
    /\ RBIdle

NextClamp ==
    \/ \E t \in MsgTypes : beginMessage(t)
    \/ writeByte(0)
    \/ finalizeMessage

SpecClamp == InitClamp /\ [][NextClamp]_vars

(***************************************************************************)
(* MessageBuffer claims.                                                   *)
(***************************************************************************)
Min(a, b) == IF a < b THEN a ELSE b

\* C2: beginMessage(t), writeByte(b1) .. writeByte(bk), finalizeMessage()
\* with k <= 255 gives size() = 2 + k and the bytes t, k, b1 .. bk; after
\* beginRead(size()) messageType() = t and payloadLength() = k, the readByte
\* calls return b1 .. bk in order, and only the call after the k-th fails.
C2_FramingRoundTrip ==
    LET k == Len(mb_sent)
    IN  /\ (mb_phase = "finalized" /\ k <= MaxPayloadLength)
              => /\ size = 2 + k
                 /\ mb_data[0] = mb_type
                 /\ mb_data[1] = k
                 /\ \A i \in 1..k : mb_data[1 + i] = mb_sent[i]
        /\ (mb_phase = "reading" /\ mb_echo /\ k <= MaxPayloadLength)
              => /\ messageType = mb_type
                 /\ payloadLength = k
                 /\ Len(mb_rcvd) <= k
                 /\ mb_rcvd = SubSeq(mb_sent, 1, Len(mb_rcvd))
                 /\ mb_tail = 2 + Len(mb_rcvd)
                 /\ (Len(mb_rcvd) < k => mb_tail < mb_head)
                 /\ (mb_op = "readByte" /\ mb_ret)
                       => /\ Len(mb_rcvd) >= 1
                          /\ mb_out = mb_sent[Len(mb_rcvd)]
                 /\ (mb_op = "readByte" /\ ~mb_ret) => mb_rcvd = mb_sent

\* C2 witness: the message 0x42, 2, 0x11, 0x22 was built, read back whole,
\* and the third readByte has failed.
C2_Witness ==
    /\ mb_phase = "reading"
    /\ mb_echo
    /\ mb_type = 66
    /\ mb_sent = <<17, 34>>
    /\ mb_rcvd = <<17, 34>>
    /\ mb_op = "readByte"
    /\ mb_ret = FALSE
    /\ mb_data[0] = 66 /\ mb_data[1] = 2 /\ mb_data[2] = 17 /\ mb_data[3] = 34

\* C3: after a successful beginMessage, k successful writeByte calls and
\* finalizeMessage(), payloadLength() = min(k, 255); finalizeMessage reports
\* nothing when k > 255.
C3_LengthClamp ==
    mb_phase = "finalized"
       => /\ payloadLength = Min(Len(mb_sent), 255)
          /\ (mb_op = "finalizeMessage" => mb_ret)

\* C3 witness: more than 255 payload bytes were appended and finalized.
C3_Witness ==
    /\ mb_phase = "finalized"
    /\ mb_op = "finalizeMessage"
    /\ Len(mb_sent) > 255
    /\ payloadLength = 255

\* C8: a MessageBuffer call that returns false (beginMessage with capacity
\* below 2, writeByte with the write cursor at capacity, beginRead with a
\* size below 2 or above capacity, readByte with the read cursor at the
\* write cursor) leaves both cursors, size() and every byte unchanged.
C8_NoMutationOnFailure ==
    [][LET unchanged == /\ mb_head' = mb_head
                        /\ mb_tail' = mb_tail
                        /\ mb_data' = mb_data
           failed == mb_ret' = FALSE /\ unchanged
       IN  /\ (mb_op' = "beginMessage" /\ mb_capacity < 2) => failed
           /\ (mb_op' = "writeByte" /\ mb_head >= mb_capacity) => failed
           /\ (mb_op' = "beginRead" /\ (mb_arg' < 2 \/ mb_arg' > mb_capacity))
                 => failed
           /\ (mb_op' = "readByte" /\ mb_tail >= mb_head) => failed
           /\ (mb_op' \in {"beginMessage", "writeByte", "beginRead", "readByte"}
               /\ mb_ret' = FALSE) => unchanged]_vars

\* C8 witness: beginRead(capacity + 1) has just failed on a buffer that
\* holds a finalized message.
C8_Witness ==
    /\ mb_op = "beginRead"
    /\ mb_ret = FALSE
    /\ mb_arg = mb_capacity + 1
    /\ mb_phase = "finalized"
    /\ mb_head > 2

\* C9: beginRead(size) returns true exactly when 2 <= size <= capacity; it
\* then sets the write-side cursor to size and the read cursor to 2 and
\* changes no byte, so messageType() and payloadLength() report the bytes
\* already at indices 0 and 1.
C9_BeginRead ==
    [][mb_op' = "beginRead"
         => /\ mb_ret' = (2 <= mb_arg' /\ mb_arg' <= mb_capacity)
            /\ mb_ret' => /\ mb_head' = mb_arg'
                          /\ mb_tail' = 2
                          /\ mb_data' = mb_data]_vars

\* C9 witness: beginRead(capacity) has succeeded over a header that an
\* earlier one-byte message left in the array.
C9_Witness ==
    /\ mb_op = "beginRead"
    /\ mb_ret = TRUE
    /\ mb_arg = mb_capacity
    /\ mb_head = mb_capacity
    /\ mb_tail = 2
    /\ mb_data[0] = 66
    /\ mb_data[1] = 1

\* C10: after a successful beginRead(size), readByte succeeds exactly while
\* the read cursor is below size, returns the byte at the read cursor and
\* advances it by 1: exactly size - 2 consecutive calls succeed, whatever
\* the header length byte says.
C10_ReadBoundedBySize ==
    mb_phase = "reading"
       => /\ mb_head = mb_rsize
          /\ mb_tail = 2 + Len(mb_rcvd)
          /\ Len(mb_rcvd) <= mb_rsize - 2
          /\ \A i \in 1..Len(mb_rcvd) : mb_rcvd[i] = mb_data[1 + i]
          /\ (mb_op = "readByte" /\ mb_ret)
                => /\ Len(mb_rcvd) >= 1
                   /\ mb_out = mb_data[mb_tail - 1]
          /\ (mb_op = "readByte" /\ ~mb_ret) => Len(mb_rcvd) = mb_rsize - 2

\* C10 witness: the header declares one byte, three were received, and the
\* fourth readByte has failed after three successes.
C10_Witness ==
    /\ mb_phase = "reading"
    /\ mb_rsize = 5
    /\ payloadLength = 1
    /\ Len(mb_rcvd) = 3
    /\ mb_op = "readByte"
    /\ mb_ret = FALSE

(***************************************************************************)
(* Fill specification: the write path of a MessageBuffer of any capacity   *)
(* up to MaxMsgCapacity, or of a capacity that holds more than             *)
(* MaxPayloadLength payload bytes, filled with the byte pattern of the     *)
(* overflow test, static_cast<uint8_t>(i) for the i-th payload byte.  A    *)
(* message is begun on a buffer nothing was appended to yet; writeByte and *)
(* finalizeMessage are called in any order and number.                     *)
(***************************************************************************)
FillByte == (mb_head - headerSize_) % 256

InitFill ==
    /\ \E c \in (0..MaxMsgCapacity) \cup {headerSize_ + MaxPayloadLength + ClampExtra} :
          MBConstructed(c)
    /\ BBIdle
    /\ RBIdle

NextFill ==
    \/ mb_head = 0 /\ \E t \in MsgTypes : beginMessage(t)
    \/ writeByte(FillByte)
    \/ finalizeMessage

SpecFill == InitFill /\ [][NextFill]_vars

(***************************************************************************)
(* RingBuffer<T, N> (ring_buffer.h).  An element is an integer; Moved is   *)
(* what a slot may hold after its element was moved out of it.  The slots  *)
(* of a new buffer hold whatever default initialization of T leaves.       *)
(***************************************************************************)
\* largest N explored (N = 1..MaxN; T buf_[0] is not a valid array)
MaxN == 4

\* the values pushed: 1, 2, 3, 4 as in the wrap-around test
RBVals == {1, 2, 3, 4}

\* a moved-from element
Moved == -1

\* what a slot nobody has assigned may hold
Indeterminate == RBVals \cup {Moved}

\* what the caller's output variable may hold when pop is called
RBOutBefore == {0, 9}

\* rb_streak after n consecutive push calls on a queue that was empty
Streak(n) == [on |-> TRUE, n |-> n]

\* rb_streak when a pop has left the queue non-empty
NoStreak == [on |-> FALSE, n |-> 0]

\* size()
rb_size == rb_count

\* capacity()
rb_capacity_q == rb_N

\* empty()
empty == rb_count = 0

\* full()
full == rb_count = rb_N

\* the bounded queue of length <= N: what a push of v makes of the queue q
QueuePush(q, v) == IF Len(q) < rb_N THEN Append(q, v) ELSE q

\* the bounded queue: what a pop makes of the queue q
QueuePop(q) == IF Len(q) > 0 THEN Tail(q) ELSE q

\* what every RingBuffer call leaves alone
RBFrame == UNCHANGED <<rb_N, bbVars, mbVars>>

\* head_, tail_ and count_ as a call finds them
Was == [head |-> rb_head, tail |-> rb_tail, count |-> rb_count]

\* the observation kept beside a push of v
PushObserved(op, v) ==
    /\ rb_op' = op
    /\ rb_arg' = v
    /\ rb_in' = 0
    /\ rb_out' = 0
    /\ rb_fifo' = QueuePush(rb_fifo, v)
    /\ rb_streak' = IF ~rb_streak.on THEN NoStreak
                    ELSE IF rb_streak.n < rb_N THEN Streak(rb_streak.n + 1)
                    ELSE Streak(rb_N + 1)
    /\ rb_net' = IF rb_ret' THEN rb_net + 1 ELSE rb_net
    /\ rb_fresh' = IF rb_ret' THEN rb_fresh \cup {rb_head} ELSE rb_fresh
    /\ rb_was' = Was

\* the observation kept beside a pop into a variable that held o
PopObserved(o) ==
    /\ rb_op' = "pop"
    /\ rb_arg' = 0
    /\ rb_in' = o
    /\ rb_fifo' = QueuePop(rb_fifo)
    /\ rb_streak' = IF rb_count' = 0 THEN Streak(0) ELSE NoStreak
    /\ rb_net' = IF rb_ret' THEN rb_net - 1 ELSE rb_net
    /\ rb_was' = Was
    /\ UNCHANGED rb_fresh

\* the body of both push overloads, storing v at head_
PushBody(op, v) ==
    IF rb_count = rb_N
    THEN /\ rb_ret' = FALSE
         /\ PushObserved(op, v)
         /\ UNCHANGED <<rb_buf, rb_head, rb_tail, rb_count>>
         /\ RBFrame
    ELSE /\ rb_buf' = [rb_buf EXCEPT ![rb_head] = v]
         /\ rb_head' = (rb_head + 1) % rb_N
         /\ rb_count' = rb_count + 1
         /\ rb_ret' = TRUE
         /\ PushObserved(op, v)
         /\ UNCHANGED rb_tail
         /\ RBFrame

\* push that overwrites the oldest element when the queue is full
push_overwrite(v) ==
    IF rb_count = rb_N
    THEN /\ rb_buf' = [rb_buf EXCEPT ![rb_head] = v]
         /\ rb_head' = (rb_head + 1) % rb_N
         /\ rb_tail' = (rb_tail + 1) % rb_N
         /\ rb_ret' = TRUE
         /\ PushObserved("push", v)
         /\ UNCHANGED rb_count
         /\ RBFrame
    ELSE PushBody("push", v)

\* bool push(const T& v)
push(v) == PushBody("push", v)

\* push(T&&) that stores the element and advances head_ but leaves count_ alone
push_move_uncounted(v) ==
    IF rb_count = rb_N
    THEN PushBody("push_move", v)
    ELSE /\ rb_buf' = [rb_buf EXCEPT ![rb_head] = v]
         /\ rb_head' = (rb_head + 1) % rb_N
         /\ rb_ret' = TRUE
         /\ PushObserved("push_move", v)
         /\ UNCHANGED <<rb_tail, rb_count>>
         /\ RBFrame

\* bool push(T&& v)
push_move(v) == PushBody("push_move", v)

\* pop taking the newest element, the slot before head_, instead of the oldest
pop_newest(o) ==
    IF rb_count = 0
    THEN /\ rb_ret' = FALSE
         /\ rb_out' = o
         /\ UNCHANGED <<rb_buf, rb_head, rb_tail, rb_count>>
         /\ PopObserved(o)
         /\ RBFrame
    ELSE /\ rb_out' = rb_buf[(rb_head + rb_N - 1) % rb_N]
         /\ rb_head' = (rb_head + rb_N - 1) % rb_N
         /\ rb_count' = rb_count - 1
         /\ rb_ret' = TRUE
         /\ UNCHANGED <<rb_buf, rb_tail>>
         /\ PopObserved(o)
         /\ RBFrame

\* pop assigning a default value to the output variable when the queue is empty
pop_clearing(o) ==
    IF rb_count = 0
    THEN /\ rb_ret' = FALSE
         /\ rb_out' = 0
         /\ UNCHANGED <<rb_buf, rb_head, rb_tail, rb_count>>
         /\ PopObserved(o)
         /\ RBFrame
    ELSE /\ rb_out' = rb_buf[rb_tail]
         /\ \E left \in {rb_buf[rb_tail], Moved} :
               rb_buf' = [rb_buf EXCEPT ![rb_tail] = left]
         /\ rb_tail' = (rb_tail + 1) % rb_N
         /\ rb_count' = rb_count - 1
         /\ rb_ret' = TRUE
         /\ UNCHANGED rb_head
         /\ PopObserved(o)
         /\ RBFrame

\* pop advancing tail_ without the modulo
pop_nowrap(o) ==
    IF rb_count = 0
    THEN /\ rb_ret' = FALSE
         /\ rb_out' = o
         /\ UNCHANGED <<rb_buf, rb_head, rb_tail, rb_count>>
         /\ PopObserved(o)
         /\ RBFrame
    ELSE /\ rb_out' = rb_buf[rb_tail]
         /\ \E left \in {rb_buf[rb_tail], Moved} :
               rb_buf' = [rb_buf EXCEPT ![rb_tail] = left]
         /\ rb_tail' = rb_tail + 1
         /\ rb_count' = rb_count - 1
         /\ rb_ret' = TRUE
         /\ UNCHANGED rb_head
         /\ PopObserved(o)
         /\ RBFrame

\* bool pop(T& out)
pop(o) ==
    IF rb_count = 0
    THEN /\ rb_ret' = FALSE
         /\ rb_out' = o
         /\ UNCHANGED <<rb_buf, rb_head, rb_tail, rb_count>>
         /\ PopObserved(o)
         /\ RBFrame
    ELSE /\ rb_out' = rb_buf[rb_tail]
         /\ \E left \in {rb_buf[rb_tail], Moved} :
               rb_buf' = [rb_buf EXCEPT ![rb_tail] = left]
         /\ rb_tail' = (rb_tail + 1) % rb_N
         /\ rb_count' = rb_count - 1
         /\ rb_ret' = TRUE
         /\ UNCHANGED rb_head
         /\ PopObserved(o)
         /\ RBFrame

\* clear that rewinds head_ and tail_ but keeps count_
clear_keepcount ==
    /\ rb_head' = 0
    /\ rb_tail' = 0
    /\ rb_op' = "clear"
    /\ rb_ret' = TRUE
    /\ rb_arg' = 0
    /\ rb_in' = 0
    /\ rb_out' = 0
    /\ rb_fifo' = <<>>
    /\ rb_streak' = Streak(0)
    /\ rb_net' = 0
    /\ rb_fresh' = {}
    /\ rb_was' = Was
    /\ UNCHANGED <<rb_buf, rb_count>>
    /\ RBFrame

\* void clear()
clear ==
    /\ rb_head' = 0
    /\ rb_tail' = 0
    /\ rb_count' = 0
    /\ rb_op' = "clear"
    /\ rb_ret' = TRUE
    /\ rb_arg' = 0
    /\ rb_in' = 0
    /\ rb_out' = 0
    /\ rb_fifo' = <<>>
    /\ rb_streak' = Streak(0)
    /\ rb_net' = 0
    /\ rb_fresh' = {}
    /\ rb_was' = Was
    /\ UNCHANGED rb_buf
    /\ RBFrame

(***************************************************************************)
(* RingBuffer specification: any N up to MaxN, any sequence of calls.      *)
(***************************************************************************)
InitRB ==
    /\ rb_N \in 1..MaxN
    /\ rb_buf \in [0..(rb_N - 1) -> Indeterminate]
    /\ rb_head = 0
    /\ rb_tail = 0
    /\ rb_count = 0
    /\ rb_op = "init"
    /\ rb_ret = TRUE
    /\ rb_arg = 0
    /\ rb_in = 0
    /\ rb_out = 0
    /\ rb_fifo = <<>>
    /\ rb_streak = [on |-> TRUE, n |-> 0]
    /\ rb_net = 0
    /\ rb_fresh = {}
    /\ rb_was = [head |-> 0, tail |-> 0, count |-> 0]
    /\ BBIdle
    /\ MBIdle

NextRB ==
    \/ \E v \in RBVals : push(v)
    \/ \E v \in RBVals : push_move(v)
    \/ \E o \in RBOutBefore : pop(o)
    \/ clear

SpecRB == InitRB /\ [][NextRB]_vars

(***************************************************************************)
(* Further MessageBuffer claims.                                           *)
(***************************************************************************)
\* C11: beginMessage(type) on a buffer with capacity >= 2 returns true from
\* every prior state (idle, writing, finalized, reading) and leaves header
\* byte 0 = type, header byte 1 = 0, size() = 2 and the read cursor at 0;
\* nothing of an earlier message is counted any more.
C11_BeginMessage ==
    [][(mb_op' = "beginMessage" /\ mb_capacity >= 2)
          => /\ mb_phase \in {"idle", "writing", "finalized", "reading"}
             /\ mb_ret' = TRUE
             /\ mb_data'[0] = mb_arg'
             /\ mb_data'[1] = 0
             /\ size' = 2
             /\ mb_tail' = 0
             /\ mb_sent' = <<>>
             /\ mb_rcvd' = <<>>
             /\ \A i \in DOMAIN mb_data : i >= 2 => mb_data'[i] = mb_data[i]]_vars

\* C11 witness: beginMessage(0x42) has succeeded on a buffer that was being
\* read, with the read cursor past the header; the payload byte of the
\* earlier message is still in the array behind the new, empty message.
C11_Witness ==
    /\ mb_op = "beginMessage"
    /\ mb_ret = TRUE
    /\ mb_prev = "reading"
    /\ mb_capacity > 2
    /\ mb_data[0] = 66
    /\ mb_data[1] = 0
    /\ size = 2
    /\ mb_tail = 0
    /\ mb_data[2] = 17

\* C12: writeByte succeeds exactly when the write cursor is below capacity;
\* it then stores the byte at the write cursor, advances the cursor by 1 and
\* changes no other byte.  So after a successful beginMessage exactly
\* capacity - 2 writeByte calls succeed, the next one fails, and
\* finalizeMessage then commits min(capacity - 2, 255).
C12_WriteByte ==
    [][/\ mb_op' = "writeByte"
          => /\ mb_ret' = (mb_head < mb_capacity)
             /\ mb_ret' => /\ mb_data' = [mb_data EXCEPT ![mb_head] = mb_arg']
                           /\ mb_head' = mb_head + 1
                           /\ mb_tail' = mb_tail
       /\ (mb_op' = "writeByte" /\ mb_phase = "writing")
          => mb_ret' = (Len(mb_sent) < mb_capacity - 2)
       /\ (mb_op' = "finalizeMessage" /\ mb_phase = "writing"
           /\ Len(mb_sent) = mb_capacity - 2)
          => payloadLength' = Min(mb_capacity - 2, 255)]_vars

\* C12 witness: on an array that holds more than 255 payload bytes, the
\* capacity - 2 writeByte calls after beginMessage have succeeded, storing
\* the bytes 0, 1, ..., 255, 0, ..., and the next writeByte has failed.
C12_Witness ==
    /\ mb_op = "writeByte"
    /\ mb_ret = FALSE
    /\ mb_phase = "writing"
    /\ mb_capacity > headerSize_ + MaxPayloadLength
    /\ Len(mb_sent) = mb_capacity - 2
    /\ size = mb_capacity
    /\ \A i \in 0..(mb_capacity - 3) : mb_data[2 + i] = i % 256

\* C13: after a successful beginMessage, any number of writeByte calls and
\* finalizeMessage(), size() = 2 + payloadLength() and size() <= capacity.
\* The code breaks it: size() is the write cursor, which counts every
\* appended byte, while the length byte stops at 255.
C13_OnWireSize ==
    mb_phase = "finalized"
       => /\ size = 2 + payloadLength
          /\ size <= mb_capacity

(***************************************************************************)
(* Further ByteBuffer claims.                                              *)
(***************************************************************************)
\* C14: resetRead() sets readPosition() to 0 and leaves writePosition() and
\* every byte unchanged, so that readRemaining() = writePosition(); the
\* readUInt8 calls that follow it return the bytes written since the last
\* resetWrite, in write order, and fail once all of them were returned.
C14_ResetReadReplay ==
    /\ [][bb_op' = "resetRead"
            => /\ readPosition' = 0
               /\ writePosition' = writePosition
               /\ bb_data' = bb_data
               /\ bb_readRemaining' = writePosition']_vars
    /\ [](bb_replay # NoReplay
            => /\ Len(bb_replay) <= Len(bb_written)
               /\ bb_replay = SubSeq(bb_written, 1, Len(bb_replay))
               /\ (bb_op = "readUInt8" /\ bb_ret)
                     => /\ Len(bb_replay) >= 1
                        /\ bb_out = Wide(bb_written[Len(bb_replay)])
               /\ (bb_op = "readUInt8" /\ ~bb_ret) => bb_replay = bb_written
               /\ (bb_op = "resetRead") => bb_replay = <<>>)

\* C14 witness: 0xEF and then 0xDEADBEEF big-endian were written, resetRead
\* was called, five readUInt8 calls returned 0xEF 0xDE 0xAD 0xBE 0xEF and the
\* sixth has failed.
C14_Witness ==
    /\ bb_op = "readUInt8"
    /\ bb_ret = FALSE
    /\ bb_written = <<239, 222, 173, 190, 239>>
    /\ bb_replay = bb_written

\* C15: resetWrite() sets writePosition() to 0, after which
\* writeRemaining() = capacity() and readRemaining() = 0; every read fails
\* as long as nothing has been written since.
C15_ResetWrite ==
    [][/\ bb_op' = "resetWrite"
          => /\ writePosition' = 0
             /\ writeRemaining' = bb_capacity_q'
             /\ bb_readRemaining' = 0
       /\ (bb_written = <<>> /\ bb_op' \in ReadOps)
          => /\ bb_ret' = FALSE
             /\ bb_out' = bb_in']_vars

\* C15 witness: a byte was written, resetWrite and resetRead were called,
\* and a readUInt8 has failed although the byte is still in the array.
C15_Witness ==
    /\ bb_op = "readUInt8"
    /\ bb_ret = FALSE
    /\ bb_written = <<>>
    /\ bb_capacity > 0
    /\ bb_data[0] = 239
    /\ readPosition = 0
    /\ writePosition = 0

\* C16: in every reachable state readRemaining() = writePosition() -
\* readPosition() and writeRemaining() = capacity() - writePosition().
\* The code breaks the first equation: after resetWrite() the read cursor
\* may lie beyond the write cursor, and readRemaining() is then 0.
C16_QueryConsistency ==
    /\ bb_readRemaining = writePosition - readPosition
    /\ writeRemaining = bb_capacity_q - writePosition

\* C17: no ByteBuffer write touches an index outside [0, capacity), and no
\* read touches an index outside [0, writePosition()).
C17_BoundsSafety ==
    /\ bb_op \in WriteOps => bb_touched \subseteq 0..(bb_capacity_q - 1)
    /\ bb_op \in ReadOps => bb_touched \subseteq 0..(writePosition - 1)
    /\ (bb_op \in WriteOps \cup ReadOps /\ bb_ret)
          => Cardinality(bb_touched) = WidthOf(bb_op)

\* C17 witness: a 32-bit read has taken the last four bytes of a full
\* five-byte buffer, indices 1..4.
C17_Witness ==
    /\ bb_op = "readUInt32BE"
    /\ bb_ret = TRUE
    /\ bb_touched = 1..4
    /\ writePosition = 5
    /\ bb_capacity = 5

(***************************************************************************)
(* RingBuffer claims.                                                      *)
(***************************************************************************)
PushOps == {"push", "push_move"}

\* C18: under every interleaving of push, pop and clear the RingBuffer
\* answers as the bounded queue of length <= N does: a push is accepted
\* exactly when the queue holds fewer than N values, a pop succeeds exactly
\* when the queue is not empty and returns its oldest value, so the popped
\* values are the pushed values since the last clear in push order, also
\* across the wrap of head and tail.
C18_Fifo ==
    /\ [][/\ rb_op' \in PushOps => rb_ret' = (Len(rb_fifo) < rb_N)
          /\ rb_op' = "pop"
                => /\ rb_ret' = (Len(rb_fifo) > 0)
                   /\ rb_ret' => rb_out' = Head(rb_fifo)]_vars
    /\ [](/\ Len(rb_fifo) <= rb_N
          /\ rb_size = Len(rb_fifo))

\* C18 witness: with N = 3, after push 1, 2, 3, pop -> 1, push 4, pop -> 2,
\* pop -> 3, the last pop has returned 4 from slot 0, behind the wrap, and
\* the queue is empty.
C18_Witness ==
    /\ rb_N = 3
    /\ rb_op = "pop"
    /\ rb_ret = TRUE
    /\ rb_out = 4
    /\ rb_buf = [i \in 0..2 |-> IF i = 0 THEN 4 ELSE i + 1]
    /\ rb_head = 1
    /\ rb_tail = 1
    /\ empty
    /\ rb_fifo = <<>>

\* C19: push, by copy or by move, succeeds exactly when size() < N; it then
\* stores the value at head, advances head by 1 modulo N and increases
\* size() by 1; on a full queue it returns false and changes neither head,
\* tail, count nor any element.  From empty, N consecutive pushes succeed
\* and the next one fails.
C19_Push ==
    [][rb_op' \in PushOps
         => /\ rb_ret' = (rb_size < rb_N)
            /\ rb_ret' => /\ rb_size' = rb_size + 1
                          /\ rb_head' = (rb_head + 1) % rb_N
                          /\ rb_tail' = rb_tail
                          /\ rb_buf' = [rb_buf EXCEPT ![rb_head] = rb_arg']
            /\ ~rb_ret' => /\ rb_head' = rb_head
                           /\ rb_tail' = rb_tail
                           /\ rb_count' = rb_count
                           /\ rb_buf' = rb_buf
            /\ rb_streak'.on
                  => /\ rb_ret' = (rb_streak'.n <= rb_N)
                     /\ rb_ret' => rb_size' = rb_streak'.n]_vars

\* C19 witness: on an empty queue with N = 3 whose indices had already
\* advanced, three pushes have succeeded and the fourth, a push by move,
\* has failed.
C19_Witness ==
    /\ rb_N = 3
    /\ rb_op = "push_move"
    /\ rb_ret = FALSE
    /\ rb_streak = Streak(4)
    /\ full
    /\ rb_head = 2
    /\ rb_fifo = <<1, 2, 3>>

\* C20: pop succeeds exactly when size() > 0; it then returns the oldest
\* live element, advances tail by 1 modulo N and decreases size() by 1; on
\* an empty queue it returns false and changes neither head, tail, count
\* nor the output variable.
C20_Pop ==
    [][rb_op' = "pop"
         => /\ rb_ret' = (rb_size > 0)
            /\ rb_ret' => /\ rb_out' = rb_buf[rb_tail]
                          /\ Len(rb_fifo) > 0
                          /\ rb_out' = Head(rb_fifo)
                          /\ rb_size' = rb_size - 1
                          /\ rb_tail' = (rb_tail + 1) % rb_N
                          /\ rb_head' = rb_head
                          /\ \A i \in DOMAIN rb_buf :
                                i # rb_tail => rb_buf'[i] = rb_buf[i]
            /\ ~rb_ret' => /\ rb_head' = rb_head
                           /\ rb_tail' = rb_tail
                           /\ rb_count' = rb_count
                           /\ rb_buf' = rb_buf
                           /\ rb_out' = rb_in']_vars

\* C20 witness: a value was pushed and popped, and a second pop has failed
\* on the empty queue, leaving 9 in the output variable that held 9.
C20_Witness ==
    /\ rb_op = "pop"
    /\ rb_ret = FALSE
    /\ rb_in = 9
    /\ rb_out = 9
    /\ rb_head = 1
    /\ rb_tail = 1
    /\ empty

(***************************************************************************)
(* Further RingBuffer claims.                                              *)
(***************************************************************************)

\* C21: in every reachable state of the RingBuffer 0 <= size() <= N, full()
\* holds exactly when size() = N, empty() holds exactly when size() = 0,
\* capacity() = N, and size() is the number of successful pushes minus the
\* number of successful pops since construction or the last clear.
C21_CountInvariant ==
    /\ 0 <= rb_size
    /\ rb_size <= rb_N
    /\ full <=> (rb_size = rb_N)
    /\ empty <=> (rb_size = 0)
    /\ rb_capacity_q = rb_N
    /\ rb_size = rb_net
    /\ rb_head \in 0..(rb_N - 1)
    /\ rb_tail \in 0..(rb_N - 1)
    /\ rb_head = (rb_tail + rb_count) % rb_N

\* a queue of four that is full again after pops and pushes have wrapped it
C21_Witness ==
    /\ rb_N = 4
    /\ full
    /\ rb_head = 2
    /\ rb_tail = 2
    /\ rb_net = 4
    /\ rb_op = "push_move"
    /\ rb_ret

\* C22: clear(), from any state, sets head_, tail_ and count_ to 0 and touches
\* no slot, so that empty() holds and size() = 0; afterwards the next N pushes
\* succeed, and a successful pop takes its value from a slot that a push has
\* stored into since the clear, never from a slot holding an older value.
C22_Clear ==
    [][/\ (rb_op' = "clear") =>
            /\ rb_head' = 0
            /\ rb_tail' = 0
            /\ rb_count' = 0
            /\ empty'
            /\ rb_size' = 0
            /\ rb_fresh' = {}
            /\ rb_buf' = rb_buf
       /\ (rb_op' \in PushOps /\ rb_streak'.on /\ rb_streak'.n <= rb_N) =>
            /\ rb_ret'
            /\ rb_head \in rb_fresh'
       /\ (rb_op' = "pop" /\ rb_ret') =>
            /\ rb_tail \in rb_fresh
            /\ rb_out' = Head(rb_fifo)
      ]_vars

\* clear() called on a queue of four that was full and wrapped
C22_Witness ==
    /\ rb_N = 4
    /\ rb_op = "clear"
    /\ rb_was = [head |-> 2, tail |-> 2, count |-> 4]
    /\ empty
    /\ \A i \in 0..3 : rb_buf[i] \in RBVals

(***************************************************************************)
(* MessageBuffer: reading and reuse.                                       *)
(***************************************************************************)

\* C23: after a successful beginRead, readRemaining() is
\* max(0, 2 + payloadLength() - readCursor); when a finalized message of
\* k <= 255 payload bytes is read back with beginRead(size()),
\* readRemaining() starts at k, is k minus the number of bytes read so far,
\* and goes down by exactly 1 with each successful readByte until it is 0.
C23_ReadRemaining ==
    /\ [][/\ (mb_op' = "beginRead" /\ mb_ret' /\ mb_echo'
                /\ Len(mb_sent') <= MaxPayloadLength)
              => mb_readRemaining' = Len(mb_sent')
          /\ (mb_op' = "readByte" /\ mb_ret' /\ mb_phase' = "reading"
                /\ mb_echo' /\ Len(mb_sent') <= MaxPayloadLength)
              => /\ mb_readRemaining > 0
                 /\ mb_readRemaining' = mb_readRemaining - 1
         ]_vars
    /\ [](mb_phase = "reading"
           => /\ mb_readRemaining =
                    IF headerSize_ + payloadLength - mb_tail > 0
                    THEN headerSize_ + payloadLength - mb_tail ELSE 0
              /\ ((mb_echo /\ Len(mb_sent) <= MaxPayloadLength)
                    => mb_readRemaining = Len(mb_sent) - Len(mb_rcvd)))

\* a two-byte message read back, one byte taken and one still expected
C23_Witness ==
    /\ mb_phase = "reading"
    /\ mb_echo
    /\ mb_sent = <<17, 34>>
    /\ mb_rcvd = <<17>>
    /\ mb_op = "readByte"
    /\ mb_ret
    /\ mb_readRemaining = 1

\* C24: on a buffer of capacity >= 2, whatever came before, beginMessage(t),
\* k <= min(capacity - 2, 255) writeByte calls and finalizeMessage() leave
\* size() = 2 + k and the bytes [0, 2 + k) equal to t, k, b1 .. bk.
C24_Reuse ==
    [][(/\ mb_op' = "finalizeMessage"
        /\ mb_phase = "writing"
        /\ Len(mb_sent) <= Min(mb_capacity - headerSize_, MaxPayloadLength))
       => /\ size' = headerSize_ + Len(mb_sent)
          /\ messageType' = mb_type
          /\ payloadLength' = Len(mb_sent)
          /\ \A i \in 1..Len(mb_sent) :
                mb_data'[headerSize_ + i - 1] = mb_sent[i]
      ]_vars

\* a one-byte message finalized over the bytes of a longer earlier message
C24_Witness ==
    /\ mb_capacity = 5
    /\ mb_op = "finalizeMessage"
    /\ mb_phase = "finalized"
    /\ mb_prev = "writing"
    /\ mb_sent = <<34>>
    /\ size = 3
    /\ mb_data[3] = 17
    /\ mb_data[4] = 34

\* C25: for every capacity, 0 and 1 included, and every sequence of calls, no
\* call reads or writes the array at an index outside [0, capacity).
C25_BoundsSafety == mb_touched \subseteq 0..(mb_capacity - 1)

\* C26: on a buffer whose capacity holds the header, finalizeMessage() changes
\* header byte 1 and nothing else: the write cursor and size(), the read
\* cursor, the type byte and every payload byte stay as they were, so payload
\* bytes written beyond the 255th are still in [2, size()); a second
\* finalizeMessage() in a row changes no byte and no cursor.
C26_FinalizeFrame ==
    /\ [][(mb_op' = "finalizeMessage" /\ mb_capacity >= headerSize_)
           => /\ mb_head' = mb_head
              /\ size' = size
              /\ mb_tail' = mb_tail
              /\ messageType' = messageType
              /\ DOMAIN mb_data' = DOMAIN mb_data
              /\ \A i \in DOMAIN mb_data \ {1} : mb_data'[i] = mb_data[i]
              /\ mb_touched' = {1}
              /\ mb_oob' = mb_oob
              /\ (mb_op = "finalizeMessage" => mb_data' = mb_data)
         ]_vars
    /\ []((mb_phase = "finalized" /\ Len(mb_sent) = size - headerSize_)
           => \A i \in headerSize_..(size - 1) :
                 mb_data[i] = (i - headerSize_) % 256)

\* a message of 257 payload bytes finalized: the length byte says 255 and the
\* 256th and 257th payload bytes are still in the array below size()
C26_Witness ==
    /\ mb_op = "finalizeMessage"
    /\ mb_phase = "finalized"
    /\ Len(mb_sent) = MaxPayloadLength + 2
    /\ size = headerSize_ + MaxPayloadLength + 2
    /\ payloadLength = MaxPayloadLength
    /\ mb_data[headerSize_ + MaxPayloadLength] = 255
    /\ mb_data[headerSize_ + MaxPayloadLength + 1] = 0

\* C27: after a successful beginRead(size), readRemaining() is never more than
\* size - readCursor, the number of bytes readByte can still deliver.
C27_NeverOverstates ==
    mb_phase = "reading" => mb_readRemaining <= mb_rsize - mb_tail

\* C28: a successful readByte returns a byte stored at an index >= 2, never a
\* header byte, also when it is called after beginMessage with no beginRead
\* in between.
C28_PayloadOnly ==
    (mb_op = "readByte" /\ mb_ret) => \A i \in mb_touched : i >= headerSize_

\* C29: header bytes 0 and 1 are modified only by beginMessage and
\* finalizeMessage: writeByte never stores at index 0 or 1, also on a freshly
\* constructed instance, and readByte and beginRead store nowhere.
C29_HeaderIntegrity ==
    [][/\ (mb_op' = "writeByte") => mb_touched' \cap {0, 1} = {}
       /\ (mb_op' \in {"readByte", "beginRead"}) => mb_data' = mb_data
       /\ (mb_op' \notin {"beginMessage", "finalizeMessage"})
            => \A i \in DOMAIN mb_data \cap {0, 1} : mb_data'[i] = mb_data[i]
      ]_vars

\* C30: after every call readCursor <= writeCursor <= capacity, size() is the
\* write cursor, and a freshly constructed instance has size() = 0.
C30_CursorInvariant ==
    /\ 0 <= mb_tail
    /\ mb_tail <= mb_head
    /\ mb_head <= mb_capacity
    /\ size = mb_head
    /\ (mb_op = "init" => size = 0)

\* a message that fills an array of five bytes, read to its last byte
C30_Witness ==
    /\ mb_capacity = 5
    /\ mb_phase = "reading"
    /\ mb_op = "readByte"
    /\ mb_ret
    /\ mb_tail = mb_head
    /\ mb_head = mb_capacity

(***************************************************************************)
(* Committed length and RingBuffer indices.                                *)
(***************************************************************************)

\* C31: immediately after finalizeMessage() the declared length is never more
\* than what was written, payloadLength() <= max(0, size() - 2); on an
\* instance whose write cursor is still 0 the committed length is 0.
C31_DeclaredWithinWritten ==
    (mb_op = "finalizeMessage" /\ mb_capacity >= headerSize_)
       => payloadLength <= (IF size > headerSize_ THEN size - headerSize_ ELSE 0)

\* C32: in every reachable state head_ < N, tail_ < N and
\* head_ = (tail_ + count_) mod N; head_ = tail_ exactly when the queue is
\* empty or full; the live elements, oldest first, are in the count_ slots
\* tail_, tail_ + 1, ..., tail_ + count_ - 1 (mod N).
C32_IndexInvariant ==
    /\ rb_head \in 0..(rb_N - 1)
    /\ rb_tail \in 0..(rb_N - 1)
    /\ rb_count \in 0..rb_N
    /\ rb_head = (rb_tail + rb_count) % rb_N
    /\ (rb_head = rb_tail) <=> (empty \/ full)
    /\ Len(rb_fifo) = rb_count
    /\ \A i \in 1..rb_count :
          /\ (rb_tail + i - 1) % rb_N \in rb_fresh
          /\ rb_buf[(rb_tail + i - 1) % rb_N] = rb_fifo[i]

\* three live elements of a queue of four, lying across the end of the array
C32_Witness ==
    /\ rb_N = 4
    /\ rb_count = 3
    /\ rb_tail = 3
    /\ rb_head = 2
    /\ rb_op \in PushOps
    /\ rb_ret
    /\ rb_fifo = <<1, 2, 3>>

=============================================================================
